---------------------------- MODULE Spec2Model ----------------------------
(***************************************************************************)
(* Model of openhands_cli/simple_main.py: the process entry point of the   *)
(* OpenHands CLI.  One run of the process is one behaviour: the module     *)
(* body configures logging from DEBUG, main() parses sys.argv, builds the  *)
(* initial message from --file/--task, calls run_cli_entry, and dispatches *)
(* whatever the call raises.                                               *)
(*                                                                         *)
(* A Python str is a sequence of one-character strings.  An optional value *)
(* (str | None) is a record [some, val].  An exception is [cls, msg].      *)
(***************************************************************************)
EXTENDS Naturals, Sequences, FiniteSets

\* U+0060; a TLA+ string literal cannot hold the character itself.
BACKTICK == "BACKTICK"

\* U+1F44B, the emoji of the goodbye line.
WAVE == "WAVE"

\* line 34, up to the interpolated path
TAGGED_HEAD ==
  <<
    "T", "h", "e", " ", "u", "s", "e", "r", " ", "h", "a", "s", " ", "t",
    "a", "g", "g", "e", "d", " ", "a", " ", "f", "i", "l", "e", " ", "'"
  >>

\* lines 34-35, after the path
TAGGED_INTRO ==
  <<
    "'", ".", "\n", "P", "l", "e", "a", "s", "e", " ", "r", "e", "a", "d",
    " ", "a", "n", "d", " ", "u", "n", "d", "e", "r", "s", "t", "a", "n",
    "d", " ", "t", "h", "e", " ", "f", "o", "l", "l", "o", "w", "i", "n",
    "g", " ", "f", "i", "l", "e", " ", "c", "o", "n", "t", "e", "n", "t",
    " ", "f", "i", "r", "s", "t", ":", "\n", "\n"
  >>

\* line 36
FENCE_OPEN ==
  <<
    BACKTICK, BACKTICK, BACKTICK, "\n"
  >>

\* lines 37-38, after the interpolated content
FENCE_CLOSE ==
  <<
    "\n", BACKTICK, BACKTICK, BACKTICK, "\n", "\n"
  >>

\* line 39
TAGGED_PROMPT ==
  <<
    "A", "f", "t", "e", "r", " ", "r", "e", "v", "i", "e", "w", "i", "n",
    "g", " ", "t", "h", "e", " ", "f", "i", "l", "e", ",", " ", "p", "l",
    "e", "a", "s", "e", " ", "a", "s", "k", " ", "t", "h", "e", " ", "u",
    "s", "e", "r", " ", "w", "h", "a", "t", " ", "t", "h", "e", "y", " ",
    "w", "o", "u", "l", "d", " ", "l", "i", "k", "e", " ", "t", "o", " ",
    "d", "o", " ", "w", "i", "t", "h", " ", "i", "t", "."
  >>

\* line 43, up to the path
FALLBACK_HEAD ==
  <<
    "T", "h", "e", " ", "u", "s", "e", "r", " ", "a", "t", "t", "e", "m",
    "p", "t", "e", "d", " ", "t", "o", " ", "s", "h", "a", "r", "e", " ",
    "f", "i", "l", "e", " ", "'"
  >>

\* line 43, between the path and the error
FALLBACK_MID ==
  <<
    "'", ",", " ", "b", "u", "t", " ", "i", "t", " ", "c", "o", "u", "l",
    "d", " ", "n", "o", "t", " ", "b", "e", " ", "r", "e", "a", "d", ":",
    " "
  >>

\* line 60
FLAG_RESUME ==
  <<
    "-", "-", "r", "e", "s", "u", "m", "e"
  >>

\* line 65
FLAG_TASK ==
  <<
    "-", "-", "t", "a", "s", "k"
  >>

\* line 71
FLAG_FILE ==
  <<
    "-", "-", "f", "i", "l", "e"
  >>

\* an option the parser does not define
FLAG_UNKNOWN ==
  <<
    "-", "-", "b", "o", "g", "u", "s"
  >>

\* line 87, up to the interpolated exception
MARKUP_DEPS_OPEN ==
  <<
    "<", "r", "e", "d", ">", "E", "r", "r", "o", "r", ":", " ", "A", "g",
    "e", "n", "t", " ", "c", "h", "a", "t", " ", "r", "e", "q", "u", "i",
    "r", "e", "s", " ", "a", "d", "d", "i", "t", "i", "o", "n", "a", "l",
    " ", "d", "e", "p", "e", "n", "d", "e", "n", "c", "i", "e", "s", ":",
    " "
  >>

\* lines 87 and 98, after the interpolated exception
MARKUP_RED_CLOSE ==
  <<
    "<", "/", "r", "e", "d", ">"
  >>

\* line 90
MARKUP_HINT ==
  <<
    "<", "y", "e", "l", "l", "o", "w", ">", "P", "l", "e", "a", "s", "e",
    " ", "e", "n", "s", "u", "r", "e", " ", "t", "h", "e", " ", "a", "g",
    "e", "n", "t", " ", "S", "D", "K", " ", "i", "s", " ", "p", "r", "o",
    "p", "e", "r", "l", "y", " ", "i", "n", "s", "t", "a", "l", "l", "e",
    "d", ".", "<", "/", "y", "e", "l", "l", "o", "w", ">"
  >>

\* lines 94 and 96
MARKUP_GOODBYE ==
  <<
    "\n", "<", "y", "e", "l", "l", "o", "w", ">", "G", "o", "o", "d", "b",
    "y", "e", "!", " ", WAVE, "<", "/", "y", "e", "l", "l", "o", "w", ">"
  >>

\* line 98, up to the interpolated exception
MARKUP_START_OPEN ==
  <<
    "<", "r", "e", "d", ">", "E", "r", "r", "o", "r", " ", "s", "t", "a",
    "r", "t", "i", "n", "g", " ", "a", "g", "e", "n", "t", " ", "c", "h",
    "a", "t", ":", " "
  >>

\* text of line 87 without its tags
TEXT_DEPS ==
  <<
    "E", "r", "r", "o", "r", ":", " ", "A", "g", "e", "n", "t", " ", "c",
    "h", "a", "t", " ", "r", "e", "q", "u", "i", "r", "e", "s", " ", "a",
    "d", "d", "i", "t", "i", "o", "n", "a", "l", " ", "d", "e", "p", "e",
    "n", "d", "e", "n", "c", "i", "e", "s", ":", " "
  >>

\* text of line 90 without its tags
TEXT_HINT ==
  <<
    "P", "l", "e", "a", "s", "e", " ", "e", "n", "s", "u", "r", "e", " ",
    "t", "h", "e", " ", "a", "g", "e", "n", "t", " ", "S", "D", "K", " ",
    "i", "s", " ", "p", "r", "o", "p", "e", "r", "l", "y", " ", "i", "n",
    "s", "t", "a", "l", "l", "e", "d", "."
  >>

\* text of lines 94/96 without their tags
TEXT_GOODBYE ==
  <<
    "\n", "G", "o", "o", "d", "b", "y", "e", "!", " ", WAVE
  >>

\* text of line 98 without its tags
TEXT_START ==
  <<
    "E", "r", "r", "o", "r", " ", "s", "t", "a", "r", "t", "i", "n", "g",
    " ", "a", "g", "e", "n", "t", " ", "c", "h", "a", "t", ":", " "
  >>

\* str() of FileNotFoundError, up to the path
ENOENT_HEAD ==
  <<
    "[", "E", "r", "r", "n", "o", " ", "2", "]", " ", "N", "o", " ", "s",
    "u", "c", "h", " ", "f", "i", "l", "e", " ", "o", "r", " ", "d", "i",
    "r", "e", "c", "t", "o", "r", "y", ":", " ", "'"
  >>

\* str() of PermissionError, up to the path
EACCES_HEAD ==
  <<
    "[", "E", "r", "r", "n", "o", " ", "1", "3", "]", " ", "P", "e", "r",
    "m", "i", "s", "s", "i", "o", "n", " ", "d", "e", "n", "i", "e", "d",
    ":", " ", "'"
  >>

\* str() of UnicodeDecodeError
DECODE_MSG ==
  <<
    "'", "u", "t", "f", "-", "8", "'", " ", "c", "o", "d", "e", "c", " ",
    "c", "a", "n", "'", "t", " ", "d", "e", "c", "o", "d", "e", " ", "b",
    "y", "t", "e", " ", "0", "x", "f", "f", " ", "i", "n", " ", "p", "o",
    "s", "i", "t", "i", "o", "n", " ", "0", ":", " ", "i", "n", "v", "a",
    "l", "i", "d", " ", "s", "t", "a", "r", "t", " ", "b", "y", "t", "e"
  >>

\* line 11, the default of os.getenv
STR_FALSE ==
  <<
    "f", "a", "l", "s", "e"
  >>

\* line 12
STR_TRUE ==
  <<
    "t", "r", "u", "e"
  >>

\* line 12
STR_ONE ==
  <<
    "1"
  >>

(***************************************************************************)
(* Bounds of the model.                                                    *)
(***************************************************************************)
\* Longest content of the file named by --file, in characters as stored.
MaxContentLen == 2

\* Longest --task text.
MaxTaskLen == 2

\* Longest message of an exception raised by the delegate.
MaxDetailLen == 1

(***************************************************************************)
(* Values.                                                                 *)
(***************************************************************************)
None == [some |-> FALSE, val |-> <<>>]

Some(v) == [some |-> TRUE, val |-> v]

\* bool(x) of a str | None: None and "" are falsy.
Truthy(opt) == opt.some /\ opt.val # <<>>

Exc(cls, msg) == [cls |-> cls, msg |-> msg]

NoExc == Exc("", <<>>)

\* The classes a class inherits from, itself included (Python's builtin
\* hierarchy; ExpatError is xml.parsers.expat.ExpatError).
Mro(cls) ==
  CASE cls = "ModuleNotFoundError" ->
         {"ModuleNotFoundError", "ImportError", "Exception", "BaseException"}
    [] cls = "ImportError" -> {"ImportError", "Exception", "BaseException"}
    [] cls = "EOFError" -> {"EOFError", "Exception", "BaseException"}
    [] cls = "RuntimeError" -> {"RuntimeError", "Exception", "BaseException"}
    [] cls = "ExpatError" -> {"ExpatError", "Exception", "BaseException"}
    [] cls = "FileNotFoundError" ->
         {"FileNotFoundError", "OSError", "Exception", "BaseException"}
    [] cls = "PermissionError" ->
         {"PermissionError", "OSError", "Exception", "BaseException"}
    [] cls = "UnicodeDecodeError" ->
         {"UnicodeDecodeError", "ValueError", "Exception", "BaseException"}
    [] cls = "KeyboardInterrupt" -> {"KeyboardInterrupt", "BaseException"}
    [] cls = "SystemExit" -> {"SystemExit", "BaseException"}
    [] OTHER -> {cls, "BaseException"}

\* isinstance(e, base), the test an except clause makes.
IsInstance(e, base) == base \in Mro(e.cls)

\* All sequences over alphabet of length at most n.
RECURSIVE StrsUpTo(_, _)
StrsUpTo(alphabet, n) ==
  IF n = 0 THEN {<<>>}
  ELSE LET shorter == StrsUpTo(alphabet, n - 1)
       IN  shorter \cup {Append(s, c) : s \in shorter, c \in alphabet}

\* needle in haystack (Python's `in` on str): a contiguous occurrence.
Contains(haystack, needle) ==
  \E i \in 0..(Len(haystack) - Len(needle)) :
     SubSeq(haystack, i + 1, i + Len(needle)) = needle

EndsWith(s, suffix) ==
  /\ Len(suffix) <= Len(s)
  /\ SubSeq(s, Len(s) - Len(suffix) + 1, Len(s)) = suffix

(***************************************************************************)
(* Lines 11-13: the diagnostics switch.                                    *)
(***************************************************************************)
UpperCase ==
  <<"A", "B", "C", "D", "E", "F", "G", "H", "I", "J", "K", "L", "M",
    "N", "O", "P", "Q", "R", "S", "T", "U", "V", "W", "X", "Y", "Z">>

LowerCase ==
  <<"a", "b", "c", "d", "e", "f", "g", "h", "i", "j", "k", "l", "m",
    "n", "o", "p", "q", "r", "s", "t", "u", "v", "w", "x", "y", "z">>

LowerChar(c) ==
  IF \E i \in 1..26 : UpperCase[i] = c
  THEN LowerCase[CHOOSE i \in 1..26 : UpperCase[i] = c]
  ELSE c

\* str.lower()
Lower(s) == [i \in 1..Len(s) |-> LowerChar(s[i])]

\* os.getenv('DEBUG', 'false')
GetenvDebug(env) == IF env.some THEN env.val ELSE STR_FALSE

\* line 11 without its .lower()
debug_env_no_lower(env) == GetenvDebug(env)

\* line 11: debug_env
debug_env(env) == Lower(GetenvDebug(env))

\* line 12: the condition under which logging.disable(logging.WARNING) runs
ShouldDisable(debug) == debug # STR_ONE /\ debug # STR_TRUE

(***************************************************************************)
(* Lines 56-77: argparse.  Three optional string options, no positionals.  *)
(***************************************************************************)
EmptyNamespace == [resume |-> None, task |-> None, file |-> None]

\* argparse takes a token for an option when it starts with "-" (and is
\* longer than the dash); "" and other tokens are arguments.
IsOptionLike(tok) == Len(tok) > 1 /\ tok[1] = "-"

Dest(flag) ==
  CASE flag = FLAG_RESUME -> "resume"
    [] flag = FLAG_TASK -> "task"
    [] flag = FLAG_FILE -> "file"

\* parser.parse_args(): [ok, ns]; not ok is the usage error (SystemExit(2)).
RECURSIVE ParseFrom(_, _)
ParseFrom(argv, ns) ==
  IF argv = <<>> THEN [ok |-> TRUE, ns |-> ns]
  ELSE IF Head(argv) \in {FLAG_RESUME, FLAG_TASK, FLAG_FILE}
       THEN IF Len(argv) < 2 \/ IsOptionLike(argv[2])
            THEN [ok |-> FALSE, ns |-> ns]
            ELSE ParseFrom(SubSeq(argv, 3, Len(argv)),
                           [ns EXCEPT ![Dest(Head(argv))] = Some(argv[2])])
       ELSE [ok |-> FALSE, ns |-> ns]

parse_args(argv) == ParseFrom(argv, EmptyNamespace)

(***************************************************************************)
(* Lines 31-32: open(path, "r", encoding="utf-8") and f.read().            *)
(***************************************************************************)
\* A read that leaves the line endings as stored (newline="").
RawNewlines(data) == data

\* Text mode with newline=None: "\r\n" and a lone "\r" are read as "\n".
RECURSIVE UniversalNewlines(_)
UniversalNewlines(data) ==
  IF data = <<>> THEN <<>>
  ELSE IF Head(data) = "\r"
       THEN IF Len(data) > 1 /\ data[2] = "\n"
            THEN <<"\n">> \o UniversalNewlines(SubSeq(data, 3, Len(data)))
            ELSE <<"\n">> \o UniversalNewlines(Tail(data))
       ELSE <<Head(data)>> \o UniversalNewlines(Tail(data))

\* The read of the file at path: [exc, text]; exc is NoExc on success.
ReadFile(path, file) ==
  CASE file.kind = "text" ->
         [exc |-> NoExc, text |-> UniversalNewlines(file.data)]
    [] file.kind = "missing" ->
         [exc |-> Exc("FileNotFoundError", ENOENT_HEAD \o path \o <<"'">>),
          text |-> <<>>]
    [] file.kind = "denied" ->
         [exc |-> Exc("PermissionError", EACCES_HEAD \o path \o <<"'">>),
          text |-> <<>>]
    [] file.kind = "undecodable" ->
         [exc |-> Exc("UnicodeDecodeError", DECODE_MSG), text |-> <<>>]

(***************************************************************************)
(* Lines 24-46: _build_initial_task_from_args.                             *)
(***************************************************************************)
\* lines 33-40
TaggedMessage(path, content) ==
  TAGGED_HEAD \o path \o TAGGED_INTRO \o FENCE_OPEN \o content
    \o FENCE_CLOSE \o TAGGED_PROMPT

\* line 43
FallbackMessage(path, e) == FALLBACK_HEAD \o path \o FALLBACK_MID \o e.msg

\* lines 29-43, the --file branch: [exc, value]
BuildFromFile(path, file) ==
  LET r == ReadFile(path, file)
  IN  IF r.exc = NoExc
      THEN [exc |-> NoExc, value |-> Some(TaggedMessage(path, r.text))]
      ELSE IF IsInstance(r.exc, "Exception")
           THEN [exc |-> NoExc, value |-> Some(FallbackMessage(path, r.exc))]
           ELSE [exc |-> r.exc, value |-> None]

\* lines 44-46 returning "" where there is no task
BuildFromTaskOrEmpty(args) ==
  IF Truthy(args.task) THEN Some(args.task.val) ELSE Some(<<>>)

\* lines 44-46, the branch without --file
BuildFromTask(args) ==
  IF Truthy(args.task) THEN Some(args.task.val) ELSE None

\* the whole function: [exc, value]
_build_initial_task_from_args(args, file) ==
  IF Truthy(args.file)
  THEN BuildFromFile(args.file.val, file)
  ELSE [exc |-> NoExc, value |-> BuildFromTask(args)]

(***************************************************************************)
(* prompt_toolkit's HTML(markup), as called on lines 87, 90, 94, 96, 98:   *)
(* the markup is parsed as XML inside a root element, and a markup that is *)
(* not well formed raises ExpatError.  Elements without attributes and the *)
(* entities amp, lt and gt are parsed; the strings interpolated into the   *)
(* markup here hold no other construct.                                    *)
(***************************************************************************)
Letters == {LowerCase[i] : i \in 1..26}

IsTagName(name) == name # <<>> /\ \A i \in 1..Len(name) : name[i] \in Letters

\* Index of the first character of chars in s at or after i, 0 when there
\* is none.
IndexFrom(s, chars, i) ==
  LET at == {k \in i..Len(s) : s[k] \in chars}
  IN  IF at = {} THEN 0 ELSE CHOOSE k \in at : \A j \in at : k <= j

EntityNames == {<<"a", "m", "p">>, <<"l", "t">>, <<"g", "t">>}

EntityChar(name) ==
  CASE name = <<"a", "m", "p">> -> "&"
    [] name = <<"l", "t">> -> "<"
    [] name = <<"g", "t">> -> ">"

\* The parse of s from index i on: [ok, tags, text], the tags opened, in
\* order, and the text between them.  open is the stack of unclosed tags.
RECURSIVE ParseMarkup(_, _, _, _, _)
ParseMarkup(s, i, open, tags, text) ==
  IF i > Len(s) THEN [ok |-> open = <<>>, tags |-> tags, text |-> text]
  ELSE IF s[i] = "<"
  THEN LET j == IndexFrom(s, {">"}, i)
           name == SubSeq(s, i + 1, j - 1)
       IN  IF j = 0 THEN [ok |-> FALSE, tags |-> tags, text |-> text]
           ELSE IF name # <<>> /\ name[1] = "/"
           THEN IF open # <<>> /\ open[Len(open)] = Tail(name)
                THEN ParseMarkup(s, j + 1, SubSeq(open, 1, Len(open) - 1),
                                 tags, text)
                ELSE [ok |-> FALSE, tags |-> tags, text |-> text]
           ELSE IF IsTagName(name)
                THEN ParseMarkup(s, j + 1, Append(open, name),
                                 Append(tags, name), text)
                ELSE [ok |-> FALSE, tags |-> tags, text |-> text]
  ELSE IF s[i] = "&"
  THEN LET j == IndexFrom(s, {";"}, i)
           name == SubSeq(s, i + 1, j - 1)
       IN  IF j = 0 \/ name \notin EntityNames
           THEN [ok |-> FALSE, tags |-> tags, text |-> text]
           ELSE ParseMarkup(s, j + 1, open, tags, Append(text, EntityChar(name)))
  ELSE LET k == IndexFrom(s, {"<", "&"}, i)
           stop == IF k = 0 THEN Len(s) + 1 ELSE k
       IN  ParseMarkup(s, stop, open, tags, text \o SubSeq(s, i, stop - 1))

HTML(markup) == ParseMarkup(markup, 1, <<>>, <<>>, <<>>)

(***************************************************************************)
(* Lines 79-102: the try statement of main().                              *)
(***************************************************************************)
\* One printed line: print_formatted_text(HTML(...)) or traceback.print_exc().
print_formatted_text(parsed) ==
  [kind |-> "formatted", tags |-> parsed.tags, text |-> parsed.text]

print_exc(e) == [kind |-> "traceback", tags |-> <<>>, text |-> e.msg]

MarkupError == Exc("ExpatError", <<>>)

\* The except clauses with the generic one moved before the interruptions.
ExceptClauseGenericFirst(e) ==
  IF IsInstance(e, "ImportError") THEN "ImportError"
  ELSE IF IsInstance(e, "Exception") THEN "Exception"
  ELSE IF IsInstance(e, "KeyboardInterrupt") THEN "KeyboardInterrupt"
  ELSE IF IsInstance(e, "EOFError") THEN "EOFError"
  ELSE "uncaught"

\* The first except clause, in the order written, that matches e.
ExceptClause(e) ==
  IF IsInstance(e, "ImportError") THEN "ImportError"
  ELSE IF IsInstance(e, "KeyboardInterrupt") THEN "KeyboardInterrupt"
  ELSE IF IsInstance(e, "EOFError") THEN "EOFError"
  ELSE IF IsInstance(e, "Exception") THEN "Exception"
  ELSE "uncaught"

\* Each handler: [printed, raised]; raised is what leaves main (NoExc: none).
\* lines 85-92
HandleImportError(e) ==
  LET first == HTML(MARKUP_DEPS_OPEN \o e.msg \o MARKUP_RED_CLOSE)
      second == HTML(MARKUP_HINT)
  IN  IF ~first.ok THEN [printed |-> <<>>, raised |-> MarkupError]
      ELSE IF ~second.ok
           THEN [printed |-> <<print_formatted_text(first)>>, raised |-> MarkupError]
           ELSE [printed |-> <<print_formatted_text(first), print_formatted_text(second)>>,
                 raised |-> e]

\* lines 93-96
HandleInterrupt(e) ==
  LET bye == HTML(MARKUP_GOODBYE)
  IN  IF ~bye.ok THEN [printed |-> <<>>, raised |-> MarkupError]
      ELSE [printed |-> <<print_formatted_text(bye)>>, raised |-> NoExc]

\* lines 97-102
HandleException(e) ==
  LET line == HTML(MARKUP_START_OPEN \o e.msg \o MARKUP_RED_CLOSE)
  IN  IF ~line.ok THEN [printed |-> <<>>, raised |-> MarkupError]
      ELSE [printed |-> <<print_formatted_text(line), print_exc(e)>>, raised |-> e]

Handle(e) ==
  CASE ExceptClause(e) = "ImportError" -> HandleImportError(e)
    [] ExceptClause(e) \in {"KeyboardInterrupt", "EOFError"} -> HandleInterrupt(e)
    [] ExceptClause(e) = "Exception" -> HandleException(e)
    [] OTHER -> [printed |-> <<>>, raised |-> e]

(***************************************************************************)
(* The inputs of a run.                                                    *)
(***************************************************************************)
DebugValues ==
  { None, Some(<<>>), Some(STR_FALSE), Some(STR_ONE), Some(STR_TRUE),
    Some(<<"T", "r", "u", "e">>), Some(<<"T", "R", "U", "E">>),
    Some(<<"0">>), Some(<<"y", "e", "s">>) }

ResumeValues == {None, Some(<<>>), Some(<<"r">>)}

TaskValues == {None} \cup {Some(t) : t \in StrsUpTo({"a"}, MaxTaskLen)}

Paths == {<<"/", "x">>, <<"y">>}

FileValues == {None, Some(<<>>)} \cup {Some(p) : p \in Paths}

\* sys.argv[1:] of a well-formed command line
Option(flag, opt) == IF opt.some THEN <<flag, opt.val>> ELSE <<>>

CommandLine(resume, task, file) ==
  Option(FLAG_RESUME, resume) \o Option(FLAG_TASK, task) \o Option(FLAG_FILE, file)

\* command lines argparse rejects: an unknown option, an option without its
\* argument, an option where an argument is expected, a positional argument
BadCommandLines ==
  { <<FLAG_UNKNOWN>>, <<FLAG_FILE>>, <<FLAG_TASK, FLAG_FILE, <<"y">>>>, <<<<"a">>>> }

NoFile == [kind |-> "missing", data |-> <<>>]

Files ==
  {[kind |-> "text", data |-> d] : d \in StrsUpTo({"a", "\r", "\n"}, MaxContentLen)}
    \cup {[kind |-> k, data |-> <<>>] : k \in {"missing", "denied", "undecodable"}}

\* What the delegate (openhands_cli.agent_chat.run_cli_entry) can raise.
Details == StrsUpTo({"m", "<"}, MaxDetailLen)

DelegateFailures ==
  { Exc(c, m) : c \in {"ImportError", "ModuleNotFoundError", "RuntimeError"},
                m \in Details }
    \cup { Exc(c, <<>>) : c \in {"KeyboardInterrupt", "EOFError", "SystemExit"} }

\* What importing openhands_cli.agent_chat can raise (line 20).
ImportFailures ==
  { Exc(c, m) : c \in {"ImportError", "ModuleNotFoundError"}, m \in Details }

(***************************************************************************)
(* The process.                                                            *)
(***************************************************************************)
VARIABLES
  environ,          \* os.environ.get('DEBUG'), an optional str
  argv,             \* sys.argv[1:]
  file_on_disk,     \* the file at the path --file names
  pc,               \* where the process is
  logging_disabled, \* logging.disable(logging.WARNING) is in effect
  args,             \* the Namespace parse_args returned
  initial_task,     \* line 81
  entry_calls,      \* keyword arguments of each call of line 83
  delegate_loaded,  \* openhands_cli.agent_chat has been imported (line 20)
  delegate_calls,   \* keyword arguments of each call of the delegate (line 21)
  pending,          \* the exception in flight inside the try, NoExc if none
  terminal,         \* the lines printed so far
  exit,             \* how the process ended: [status, exc]
  steps             \* history: the steps taken so far, in order

vars ==
  <<environ, argv, file_on_disk, pc, logging_disabled, args, initial_task,
    entry_calls, delegate_loaded, delegate_calls, pending, terminal, exit, steps>>

inputs == <<environ, argv, file_on_disk>>

Running == [status |-> "running", exc |-> NoExc]

Init ==
  /\ \/ /\ environ \in DebugValues
        /\ \E t \in {None, Some(<<"a">>)} : argv = CommandLine(None, t, None)
        /\ file_on_disk = NoFile
     \/ /\ environ \in {None, Some(STR_ONE)}
        /\ \E r \in ResumeValues, t \in TaskValues, f \in FileValues :
             /\ argv = CommandLine(r, t, f)
             /\ file_on_disk \in (IF Truthy(f) THEN Files ELSE {NoFile})
     \/ /\ environ = None
        /\ argv \in BadCommandLines
        /\ file_on_disk \in {NoFile, [kind |-> "text", data |-> <<"a">>]}
  /\ pc = "module"
  /\ logging_disabled = FALSE
  /\ args = EmptyNamespace
  /\ initial_task = None
  /\ entry_calls = <<>>
  /\ delegate_loaded = FALSE
  /\ delegate_calls = <<>>
  /\ pending = NoExc
  /\ terminal = <<>>
  /\ exit = Running
  /\ steps = <<>>

\* lines 11-13, the module body up to main()
ConfigureDiagnostics ==
  /\ pc = "module"
  /\ logging_disabled' = ShouldDisable(debug_env(environ))
  /\ pc' = "main"
  /\ steps' = Append(steps, "configure")
  /\ UNCHANGED <<inputs, args, initial_task, entry_calls, delegate_loaded,
                 delegate_calls, pending, terminal, exit>>

\* line 77: parse_args returns the Namespace, or prints the usage and exits 2
ParseArguments ==
  /\ pc = "main"
  /\ LET r == parse_args(argv)
     IN  IF r.ok
         THEN /\ args' = r.ns
              /\ pc' = "build"
              /\ UNCHANGED <<terminal, exit>>
         ELSE /\ args' = args
              /\ pc' = "exit"
              /\ terminal' = Append(terminal,
                   [kind |-> "usage", tags |-> <<>>, text |-> <<>>])
              /\ exit' = [status |-> "usage", exc |-> Exc("SystemExit", <<"2">>)]
  /\ steps' = Append(steps, "parse")
  /\ UNCHANGED <<inputs, logging_disabled, initial_task, entry_calls,
                 delegate_loaded, delegate_calls, pending>>

\* line 81
ResolveInitialTask ==
  /\ pc = "build"
  /\ LET r == _build_initial_task_from_args(args, file_on_disk)
     IN  IF r.exc = NoExc
         THEN /\ initial_task' = r.value
              /\ pc' = "call"
              /\ UNCHANGED pending
         ELSE /\ pending' = r.exc
              /\ pc' = "dispatch"
              /\ UNCHANGED initial_task
  /\ steps' = Append(steps, "resolve")
  /\ UNCHANGED <<inputs, logging_disabled, args, entry_calls, delegate_loaded,
                 delegate_calls, terminal, exit>>

\* line 83 passing `args.resume or None`
run_cli_entry_resume_or_none ==
  /\ pc = "call"
  /\ entry_calls' = Append(entry_calls,
       [resume_conversation_id |->
          IF Truthy(args.resume) THEN args.resume ELSE None,
        initial_user_message |-> initial_task])
  /\ pc' = "load"
  /\ steps' = Append(steps, "call")
  /\ UNCHANGED <<inputs, logging_disabled, args, initial_task, delegate_loaded,
                 delegate_calls, pending, terminal, exit>>

\* line 83: main calls the wrapper run_cli_entry of line 19
run_cli_entry ==
  /\ pc = "call"
  /\ entry_calls' = Append(entry_calls,
       [resume_conversation_id |-> args.resume,
        initial_user_message |-> initial_task])
  /\ pc' = "load"
  /\ steps' = Append(steps, "call")
  /\ UNCHANGED <<inputs, logging_disabled, args, initial_task, delegate_loaded,
                 delegate_calls, pending, terminal, exit>>

\* line 20: the import of openhands_cli.agent_chat succeeds
LoadDelegate ==
  /\ pc = "load"
  /\ delegate_loaded' = TRUE
  /\ pc' = "invoke"
  /\ steps' = Append(steps, "load")
  /\ UNCHANGED <<inputs, logging_disabled, args, initial_task, entry_calls,
                 delegate_calls, pending, terminal, exit>>

\* line 20: the import fails
LoadDelegateFails ==
  /\ pc = "load"
  /\ \E e \in ImportFailures : pending' = e
  /\ pc' = "dispatch"
  /\ steps' = Append(steps, "load_failed")
  /\ UNCHANGED <<inputs, logging_disabled, args, initial_task, entry_calls,
                 delegate_loaded, delegate_calls, terminal, exit>>

\* line 21: the wrapper passes its arguments on to the delegate
InvokeDelegate ==
  /\ pc = "invoke"
  /\ delegate_calls' = Append(delegate_calls, entry_calls[Len(entry_calls)])
  /\ pc' = "session"
  /\ steps' = Append(steps, "invoke")
  /\ UNCHANGED <<inputs, logging_disabled, args, initial_task, entry_calls,
                 delegate_loaded, pending, terminal, exit>>

\* the session ends normally: main returns
DelegateReturns ==
  /\ pc = "session"
  /\ pc' = "exit"
  /\ exit' = [status |-> "returned", exc |-> NoExc]
  /\ steps' = Append(steps, "return")
  /\ UNCHANGED <<inputs, logging_disabled, args, initial_task, entry_calls,
                 delegate_loaded, delegate_calls, pending, terminal>>

\* the session raises
DelegateRaises ==
  /\ pc = "session"
  /\ \E e \in DelegateFailures : pending' = e
  /\ pc' = "dispatch"
  /\ steps' = Append(steps, "raise")
  /\ UNCHANGED <<inputs, logging_disabled, args, initial_task, entry_calls,
                 delegate_loaded, delegate_calls, terminal, exit>>

\* lines 85-102: the matching handler runs, and main returns or raises
DispatchError ==
  /\ pc = "dispatch"
  /\ LET h == Handle(pending)
     IN  /\ terminal' = terminal \o h.printed
         /\ exit' = IF h.raised = NoExc
                    THEN [status |-> "returned", exc |-> NoExc]
                    ELSE [status |-> "raised", exc |-> h.raised]
  /\ pc' = "exit"
  /\ steps' = Append(steps, "dispatch")
  /\ UNCHANGED <<inputs, logging_disabled, args, initial_task, entry_calls,
                 delegate_loaded, delegate_calls, pending>>

Next ==
  \/ ConfigureDiagnostics
  \/ ParseArguments
  \/ ResolveInitialTask
  \/ run_cli_entry
  \/ LoadDelegate
  \/ LoadDelegateFails
  \/ InvokeDelegate
  \/ DelegateReturns
  \/ DelegateRaises
  \/ DispatchError

Spec == Init /\ [][Next]_vars

(***************************************************************************)
(* The claims.                                                             *)
(***************************************************************************)
Did(step) == \E i \in 1..Len(steps) : steps[i] = step

\* Resolution returned (line 81 raised nothing).
Resolved == pc = "call" \/ Did("call")

\* The delegate raised e and the dispatch has run.
DelegateRaised == pc = "exit" /\ Did("raise") /\ Did("dispatch")

Styled(tag, text) == [kind |-> "formatted", tags |-> <<tag>>, text |-> text]

RED == <<"r", "e", "d">>

YELLOW == <<"y", "e", "l", "l", "o", "w">>

\* The result of resolution had --task been t, everything else the same.
WithTask(t) == _build_initial_task_from_args([args EXCEPT !.task = t], file_on_disk)

\* C1: whenever --file is present, the resolved message is the same for
\* every --task (any text, or none): the task never influences the result.
C1_FileOverridesTask ==
  (Resolved /\ args.file.some) =>
     \A t \in TaskValues :
        /\ WithTask(t).exc = NoExc
        /\ WithTask(t).value = initial_task

\* C2: with --task T and no --file, the initial message is exactly T, and
\* that T is what the delegate receives as initial_user_message.
C2_TaskIsMessage ==
  (Resolved /\ args.task.some /\ ~args.file.some) =>
     /\ initial_task = Some(args.task.val)
     /\ \A i \in 1..Len(delegate_calls) :
           delegate_calls[i].initial_user_message = Some(args.task.val)

\* The case of C3: --file names a readable file and resolution is over.
ReadableFileResolved ==
  /\ Did("resolve")
  /\ Truthy(args.file)
  /\ file_on_disk.kind = "text"

\* C3 as stated: for a readable file at P with content C, the message names
\* P, embeds C verbatim inside the fenced block, ends with the prompt, and
\* does not contain the --task text.
C3_Original ==
  ReadableFileResolved =>
     /\ Resolved /\ initial_task.some
     /\ Contains(initial_task.val, <<"'">> \o args.file.val \o <<"'">>)
     /\ Contains(initial_task.val,
                 FENCE_OPEN \o file_on_disk.data \o FENCE_CLOSE)
     /\ EndsWith(initial_task.val, TAGGED_PROMPT)
     /\ args.task.some => ~Contains(initial_task.val, args.task.val)

\* C with each "\r\n" and each lone "\r" turned into "\n".
LineEndingsNormalised(c) ==
  LET marked == [i \in 1..Len(c) |->
                   IF c[i] = "\n" /\ i > 1 /\ c[i - 1] = "\r" THEN "dropped"
                   ELSE IF c[i] = "\r" THEN "\n" ELSE c[i]]
      Kept(x) == x # "dropped"
  IN  SelectSeq(marked, Kept)

\* C3 as amended: the message names P, embeds C with its line endings
\* normalised to "\n" inside the fenced block, ends with the prompt, and is
\* the same whatever --task is.
C3_TaggedFileMessage ==
  ReadableFileResolved =>
     /\ Resolved /\ initial_task.some
     /\ Contains(initial_task.val, <<"'">> \o args.file.val \o <<"'">>)
     /\ Contains(initial_task.val,
                 FENCE_OPEN \o LineEndingsNormalised(file_on_disk.data)
                   \o FENCE_CLOSE)
     /\ EndsWith(initial_task.val, TAGGED_PROMPT)
     /\ \A t \in TaskValues : WithTask(t).value = initial_task

C3_Witness ==
  /\ ReadableFileResolved
  /\ pc = "call"
  /\ Truthy(args.task)
  /\ file_on_disk.data = <<"a", "\r">>

\* C4: when --file P is given and the file cannot be read, resolution does
\* not raise, returns a string that contains P and the error description,
\* prints nothing, and the delegate receives that string.
C4_UnreadableFileFallsBack ==
  (Did("resolve") /\ args.file.some
     /\ ReadFile(args.file.val, file_on_disk).exc # NoExc) =>
     /\ Resolved
     /\ initial_task.some
     /\ Contains(initial_task.val, args.file.val)
     /\ Contains(initial_task.val, ReadFile(args.file.val, file_on_disk).exc.msg)
     /\ pc = "call" => terminal = <<>>
     /\ \A i \in 1..Len(delegate_calls) :
           delegate_calls[i].initial_user_message = initial_task

\* C5: a KeyboardInterrupt or EOFError raised by the delegate call prints
\* exactly one line, the goodbye, and main returns normally: nothing is
\* propagated, no error line and no trace is printed.
C5_InterruptIsGoodbye ==
  (DelegateRaised
     /\ (IsInstance(pending, "KeyboardInterrupt") \/ IsInstance(pending, "EOFError"))) =>
     /\ terminal = <<Styled(YELLOW, TEXT_GOODBYE)>>
     /\ exit = [status |-> "returned", exc |-> NoExc]

C5_Witness ==
  /\ DelegateRaised
  /\ pending.cls = "EOFError"
  /\ Len(terminal) = 1
  /\ exit.status = "returned"

\* C6: an ImportError (or a subclass), from loading the delegate or from the
\* delegate, prints exactly two lines, the error line with the failure's
\* detail and then the install hint, and the same exception is re-raised.
C6_MissingDependencyReported ==
  (pc = "exit" /\ Did("dispatch") /\ IsInstance(pending, "ImportError")) =>
     /\ terminal = <<Styled(RED, TEXT_DEPS \o pending.msg),
                     Styled(YELLOW, TEXT_HINT)>>
     /\ exit = [status |-> "raised", exc |-> pending]

\* C7: whatever else the delegate raises (no ImportError, no interruption)
\* is reported before it propagates: the error line with the failure's
\* description, then the trace, then the same failure is re-raised.
C7_OtherFailureReported ==
  (DelegateRaised
     /\ ~IsInstance(pending, "ImportError")
     /\ ~IsInstance(pending, "KeyboardInterrupt")
     /\ ~IsInstance(pending, "EOFError")) =>
     /\ terminal = <<Styled(RED, TEXT_START \o pending.msg), print_exc(pending)>>
     /\ exit = [status |-> "raised", exc |-> pending]

\* C8: with neither --file nor --task, resolution returns None (not ""),
\* and the delegate is invoked with initial_user_message unset.
C8_NoArgumentsNoMessage ==
  (Did("resolve") /\ ~args.file.some /\ ~args.task.some) =>
     /\ Resolved
     /\ initial_task = None
     /\ initial_task # Some(<<>>)
     /\ \A i \in 1..Len(entry_calls) : entry_calls[i].initial_user_message = None
     /\ \A i \in 1..Len(delegate_calls) :
           delegate_calls[i].initial_user_message = None

C8_Witness ==
  /\ Len(delegate_calls) = 1
  /\ ~args.file.some
  /\ ~args.task.some
  /\ argv # <<>>

\* DEBUG is "1" or "true" in some letter case.
DebugOn ==
  /\ environ.some
  /\ Len(environ.val) \in {1, 4}
  /\ Len(environ.val) = 1 => environ.val = <<"1">>
  /\ Len(environ.val) = 4 =>
        /\ environ.val[1] \in {"t", "T"}
        /\ environ.val[2] \in {"r", "R"}
        /\ environ.val[3] \in {"u", "U"}
        /\ environ.val[4] \in {"e", "E"}

\* C9: nothing is suppressed before the module body runs; from then on, at
\* every later step, warnings and below are suppressed exactly when DEBUG is
\* not "1" or "true" in any letter case (unset included).
C9_DiagnosticsDecidedOnce ==
  /\ pc = "module" => ~logging_disabled
  /\ pc # "module" => (logging_disabled <=> ~DebugOn)

C9_Witness ==
  /\ pc = "exit"
  /\ Did("dispatch")
  /\ environ = Some(<<"T", "R", "U", "E">>)
  /\ ~logging_disabled

\* The place of a step in the startup sequence.
Rank(step) ==
  CASE step = "configure" -> 1
    [] step = "parse" -> 2
    [] step = "resolve" -> 3
    [] step = "call" -> 4
    [] step \in {"load", "load_failed"} -> 5
    [] step = "invoke" -> 6
    [] step \in {"return", "raise"} -> 7
    [] step = "dispatch" -> 8

\* The value that follows --resume on the command line, None without it.
ResumeGiven ==
  IF \E i \in 1..(Len(argv) - 1) : argv[i] = FLAG_RESUME
  THEN Some(argv[1 + CHOOSE i \in 1..(Len(argv) - 1) : argv[i] = FLAG_RESUME])
  ELSE None

\* The parts of C10 that the original and the amended statement share: the
\* steps never go back, the delegate module is loaded only after the
\* diagnostics are configured, the arguments parsed and the message resolved,
\* each call carries --resume as given and the resolved message, and a usage
\* error loads and invokes nothing.
StartupIsLinear ==
  /\ \A i, j \in 1..Len(steps) : i < j => Rank(steps[i]) < Rank(steps[j])
  /\ (delegate_loaded \/ delegate_calls # <<>> \/ entry_calls # <<>>) =>
        (Did("configure") /\ Did("parse") /\ Did("resolve") /\ Resolved)
  /\ \A i \in 1..Len(delegate_calls) :
        delegate_calls[i] = [resume_conversation_id |-> ResumeGiven,
                             initial_user_message |-> initial_task]
  /\ exit.status = "usage" =>
        (~delegate_loaded /\ delegate_calls = <<>> /\ entry_calls = <<>>)

\* C10 as stated: the startup sequence is linear, and in a finished run where
\* parsing succeeded and resolution completed the delegate was invoked
\* exactly once.
C10_Original ==
  /\ StartupIsLinear
  /\ (pc = "exit" /\ Resolved) => Len(delegate_calls) = 1

\* C10 as amended: the startup sequence is linear, and in a finished run
\* where parsing succeeded and resolution completed main called
\* run_cli_entry exactly once; the delegate was invoked exactly once when
\* its module loaded and never when loading it failed.
C10_StartupSequence ==
  /\ StartupIsLinear
  /\ Len(entry_calls) <= 1 /\ Len(delegate_calls) <= 1
  /\ (pc = "exit" /\ Resolved) =>
        /\ Len(entry_calls) = 1
        /\ delegate_loaded => Len(delegate_calls) = 1
        /\ ~delegate_loaded => (delegate_calls = <<>> /\ Did("load_failed"))

C10_Witness ==
  /\ pc = "exit"
  /\ Len(delegate_calls) = 1
  /\ delegate_calls[1].resume_conversation_id = Some(<<>>)
  /\ delegate_calls[1].initial_user_message.some

=============================================================================
